---------------------------- MODULE Spec2Model ----------------------------
(***************************************************************************)
(* Model of the HttpClient of http-client-xhr (src/index.ts, retryable.ts, *)
(* readystate.ts): one logical request, its attempts, the 10 ms debounce   *)
(* of the Done lifecycle phase, the retry decision and the backoff timers. *)
(*                                                                         *)
(* The XMLHttpRequest and the timer queue of the host are the environment: *)
(* the transport delivers readystatechange / error / abort / timeout       *)
(* events to any attempt at any moment, Done before the failure signals of *)
(* an attempt; timers fire in the order of their deadlines.                *)
(* Promise reactions (.then) are microtasks, so a settlement and its       *)
(* propagation to the promises chained on it form one step.                *)
(***************************************************************************)
EXTENDS Integers, Sequences, FiniteSets, TLC

(* ----------------------------- bounds --------------------------------- *)
\* largest retry budget given to the constructor or to a call
MaxRetries == 2
\* attempts the transport is allowed to make possible (see MaySpawn)
MaxAttempts == 3
\* failure signals (error / abort / timeout) the transport delivers in all
MaxSignals == 3
\* lines of the raw response header blob
MaxHeaderLines == 2

(* ------------------------ program constants --------------------------- *)
\* an optional value (undefined / null in the source) is the empty set, a
\* present one the singleton of its value
Null == {}
Some(v) == {v}
Value(x) == CHOOSE v \in x : TRUE
NoCause == "None"

\* src/src/readystate.ts: const enum ReadyState
Unsent == 0
Opened == 1
HeadersReceived == 2
Loading == 3
Done == 4

\* enum XhrFailures (retryable.ts)
XhrFailures == {"Status", "Error", "Abort", "Timeout"}

\* const enum Outcome (index.ts); only None and Done are ever assigned
OutcomeNone == "None"
OutcomeDone == "Done"

\* setTimeout(onDone, 10)
DebounceDelay == 10
\* (2 ** attempt) * 250
BackoffBase == 250
\* if (res.statusCode >= 400)
StatusFailureFloor == 400
\* _makeRequest(..., attempt: number = 1)
FirstAttempt == 1
\* let nextRequestId = 1
FirstRequestId == 1
\* Number.MAX_SAFE_INTEGER is 2^53 - 1; the model checker's integers have 32
\* bits, so the ceiling is the largest of those
MAX_SAFE_INTEGER == 2147483647

(* ------------------------ environment inputs -------------------------- *)
\* xhr.status values read by onDone: none (a network error), a success, the
\* least failure
Statuses == {0, 200, 400}
Methods == {"GET", "HEAD", "POST"}
\* params.body: absent or a non-empty payload
Bodies == {Null, Some("payload")}
\* retries?: absent or a number; the type admits negative ones
OptionalRetries == {Null} \cup {Some(r) : r \in (-1)..MaxRetries}
\* HttpClientParams given to the constructor: nothing, or a budget and a
\* predicate that retries every failure
\* a Headers object is the sequence of its <<name, value>> entries, in the
\* order Object.keys enumerates them
ClientHeaders == << <<"accept", "text/plain">> >>
ClientParams ==
    { [retries |-> Null, isRetryable |-> Null, headers |-> Null],
      [retries |-> Some(MaxRetries), isRetryable |-> Some("retryAll"),
       headers |-> Some(ClientHeaders)] }
\* isRetryable? of a call: absent, or a predicate that retries status failures
CallPolicies == {Null, Some("retryStatus")}
\* headers? of a call: absent, or one that overrides a client header and
\* adds another
CallHeaders ==
    {Null, Some(<< <<"accept", "application/json">>, <<"x-id", "7">> >>)}
\* responseType? of a call: absent, a binary type, or text. 'text' is outside
\* the declared union but XMLHttpRequest takes it
ResponseTypes == {Null, Some("arraybuffer"), Some("text")}

\* A string the program takes apart is a sequence of symbols: the characters
\* the code looks for (':', ' ', CR, LF) and words, runs of other characters
CR == "\r"
LF == "\n"
HeaderNames == {<<"Content-Type">>, <<"content-type">>, <<"X-Foo">>}
HeaderValues == {<<"application/json">>, <<"bar">>}
\* the response header lines a server sends: <<name, value>> each
HeaderLines == HeaderNames \X HeaderValues
HeaderLists == UNION {[1..n -> HeaderLines] : n \in 0..MaxHeaderLines}
\* response bodies: a JSON text and one that is none
ParsableTexts == {"{}"}
ResponseBodies == {"{}", "oops"}
\* what the server answers the requests of a run with
Servers == {[headers |-> l, body |-> b] : l \in HeaderLists, b \in ResponseBodies}
DefaultServer ==
    [headers |-> << <<(<<"Content-Type">>), (<<"application/json">>)>>,
                    <<(<<"X-Foo">>), (<<"bar">>)>> >>,
     body |-> "oops"]

VARIABLES
    client,         \* the HttpClient: [retries, isRetryable, headers]
    nextRequestId,  \* module-level counter
    attempts,       \* one record per _makeRequest call, in call order
    timers,         \* pending setTimeout callbacks, in registration order
    settleCalls,    \* invocations of resolve(res) / reject({xhr, cause}) by handlers
    server          \* the response headers and body the transport receives

vars == <<client, nextRequestId, attempts, timers, settleCalls, server>>

(* ------------------------- pure functions ----------------------------- *)
RECURSIVE Pow2(_)
Pow2(n) == IF n <= 0 THEN 1 ELSE 2 * Pow2(n - 1)

\* retryNetworkErrors with aborts taken for network errors too
retryNetworkErrors_AbortToo(cause) ==
    cause = "Timeout" \/ cause = "Error" \/ cause = "Abort"

\* retryable.ts: retryNetworkErrors
retryNetworkErrors(cause) == cause = "Timeout" \/ cause = "Error"

\* an IsRetryableCallback, by name
IsRetryableCallback(policy, cause) ==
    CASE policy = "retryNetworkErrors" -> retryNetworkErrors(cause)
      [] policy = "retryAll" -> TRUE
      [] policy = "retryStatus" -> cause = "Status"

\* x || dflt for an optional constructor parameter
OrDefault(x, dflt) == IF x = Null \/ x = Some(0) THEN dflt ELSE Value(x)

\* x == null ? dflt : x
Coalesce(x, dflt) == IF x = Null THEN dflt ELSE Value(x)

\* const retries = params.retries == null ? this.retries : params.retries
EffectiveRetries(params) == Coalesce(params.retries, client.retries)

\* const isRetryable = params.isRetryable == null ? this.isRetryable : params.isRetryable
EffectivePolicy(params) == Coalesce(params.isRetryable, client.isRetryable)

\* the budget test written as retries >= 0
Truthy_OffByOne(n) == n >= 0

\* if (retries): any non-zero number is truthy
Truthy(n) == n # 0

\* the classification written as statusCode > 400
IsStatusFailure_Strict(status) == status > StatusFailureFloor

\* if (res.statusCode >= 400)
IsStatusFailure(status) == status >= StatusFailureFloor

\* const backoff = (2 ** attempt) * 250
Backoff(attempt) == Pow2(attempt) * BackoffBase

\* the body test without the look at the method
SendsBody_AnyMethod(method, params) == params.body # Null

\* params.body && method !== 'GET' && method !== 'HEAD'
SendsBody(method, params) ==
    params.body # Null /\ method # "GET" /\ method # "HEAD"

\* the id counter reset to 0
NextId_WrapsToZero(id) == IF id >= MAX_SAFE_INTEGER THEN 0 ELSE id + 1

\* nextRequestId++; if (requestId >= Number.MAX_SAFE_INTEGER) nextRequestId = 1
NextId(id) == IF id >= MAX_SAFE_INTEGER THEN FirstRequestId ELSE id + 1

(* ------------------------------ strings ------------------------------- *)
IsSpace(c) == c \in {" ", CR, LF}

RECURSIVE TrimStart(_)
TrimStart(s) ==
    IF s = <<>> \/ ~IsSpace(Head(s)) THEN s ELSE TrimStart(Tail(s))

RECURSIVE TrimEnd(_)
TrimEnd(s) ==
    IF s = <<>> \/ ~IsSpace(s[Len(s)]) THEN s ELSE TrimEnd(SubSeq(s, 1, Len(s) - 1))

\* String.prototype.trim
Trim(s) == TrimEnd(TrimStart(s))

\* String.prototype.indexOf: the 0-based place of the first c, or -1
IndexOf(s, c) ==
    IF \E k \in 1..Len(s) : s[k] = c
    THEN (CHOOSE k \in 1..Len(s) : s[k] = c /\ \A j \in 1..(k - 1) : s[j] # c) - 1
    ELSE -1

\* String.prototype.slice(from, to): a negative index counts from the end
Slice(s, from, to) ==
    LET n == Len(s)
        At(x) == IF x < 0 THEN (IF n + x < 0 THEN 0 ELSE n + x)
                 ELSE (IF x > n THEN n ELSE x)
    IN SubSeq(s, At(from) + 1, At(to))

\* String.prototype.split('\r\n')
RECURSIVE Split(_)
Split(s) ==
    IF \E k \in 1..(Len(s) - 1) : s[k] = CR /\ s[k + 1] = LF
    THEN LET k == CHOOSE k \in 1..(Len(s) - 1) :
                      /\ s[k] = CR /\ s[k + 1] = LF
                      /\ \A j \in 1..(k - 1) : ~(s[j] = CR /\ s[j + 1] = LF)
         IN <<SubSeq(s, 1, k - 1)>> \o Split(SubSeq(s, k + 2, Len(s)))
    ELSE <<s>>

LowerCase(c) ==
    CASE c = "Content-Type" -> "content-type"
      [] c = "X-Foo" -> "x-foo"
      [] OTHER -> c
\* String.prototype.toLowerCase
ToLowerCase(s) == [k \in 1..Len(s) |-> LowerCase(s[k])]

(* ------------------------- the built Response ------------------------- *)
\* xhr.getAllResponseHeaders(): each line as 'Name: value' CR LF
RECURSIVE GetAllResponseHeaders(_)
GetAllResponseHeaders(lines) ==
    IF lines = <<>> THEN <<>>
    ELSE Head(lines)[1] \o <<":", " ">> \o Head(lines)[2] \o <<CR, LF>>
         \o GetAllResponseHeaders(Tail(lines))

\* the [ name, value ] the forEach callback takes from one line
HeaderEntry(header) ==
    LET nameEndIndex == IndexOf(header, ":")
    IN <<Trim(Slice(header, 0, nameEndIndex)),
         Trim(Slice(header, nameEndIndex + 1, Len(header)))>>

\* res.rawHeaders once every line is pushed
RawHeaders(blob) ==
    LET headers == Split(Trim(blob))
    IN [k \in 1..Len(headers) |-> HeaderEntry(headers[k])]

\* res.headers[name.toLowerCase()] = value, entry after entry from the k-th
RECURSIVE AssignHeaders(_, _, _)
AssignHeaders(obj, raw, k) ==
    IF k > Len(raw) THEN obj
    ELSE LET name == ToLowerCase(raw[k][1])
         IN AssignHeaders([n \in DOMAIN obj \cup {name} |->
                              IF n = name THEN raw[k][2] ELSE obj[n]],
                          raw, k + 1)

\* obj[name], Null when obj has no such property
Property(obj, name) == IF name \in DOMAIN obj THEN Some(obj[name]) ELSE Null

\* if (params.responseType) xhr.responseType = params.responseType
XhrResponseType(params) == Coalesce(params.responseType, "")

\* data as string, as JSON.parse reads it: an ArrayBuffer turns into its tag
DataAsString(responseType, body) ==
    IF responseType = "arraybuffer" THEN "[object ArrayBuffer]" ELSE body

\* the catch block keeping the raw payload
ParsedJson_KeepsRaw(text) == Some(text)

\* try { res.json = JSON.parse(data) } catch (error) { logger.warn(...) }
ParsedJson(text) == IF text \in ParsableTexts THEN Some(text) ELSE Null

\* headers, rawHeaders and json of the Response onDone builds for a call
\* with these params
BuildResponse(params) ==
    LET raw == RawHeaders(GetAllResponseHeaders(server.headers))
        headers == AssignHeaders([n \in {} |-> <<>>], raw, 1)
    IN [headers |-> headers,
        rawHeaders |-> raw,
        json |-> IF /\ Property(headers, <<"content-type">>) = Some(<<"application/json">>)
                    /\ XhrResponseType(params) # ""
                 THEN ParsedJson(DataAsString(XhrResponseType(params), server.body))
                 ELSE Null]

(* ------------------------------ promises ------------------------------ *)
Pending ==
    [state |-> "pending", xhr |-> 0, cause |-> NoCause, statusCode |-> -1,
     res |-> Null]
\* resolve(res): res = { xhr, statusCode, body, headers, rawHeaders, json? }
Resolved(i, status) ==
    [state |-> "resolved", xhr |-> i, cause |-> NoCause, statusCode |-> status,
     res |-> Some(BuildResponse(attempts[i].params))]
\* reject({ xhr, cause })
Rejected(i, cause) ==
    [state |-> "rejected", xhr |-> i, cause |-> cause, statusCode |-> -1,
     res |-> Null]

\* resolve / reject of attempt i's promise with value v; a settled promise
\* ignores it, a pending one takes it and hands it to the promise of the
\* attempt that retried into i: this._makeRequest(...).then(resolve, reject)
RECURSIVE Settle(_, _, _)
Settle(atts, i, v) ==
    IF atts[i].promise.state # "pending" THEN atts
    ELSE LET upd == [atts EXCEPT ![i].promise = v]
         IN IF atts[i].parent = 0 THEN upd ELSE Settle(upd, atts[i].parent, v)

(* ------------------------------- timers ------------------------------- *)
\* setTimeout(callback, delay): a timer is [kind, owner, delay, due, ...],
\* due being the milliseconds left until it fires
SetTimeout(tm, kind, i, delay, retries, cause) ==
    Append(tm, [kind |-> kind, owner |-> i, delay |-> delay, due |-> delay,
                retries |-> retries, cause |-> cause])

\* index of the timer that fires next: least time left, first registered
NextTimer ==
    CHOOSE k \in 1..Len(timers) :
        \A j \in 1..Len(timers) :
            \/ timers[k].due < timers[j].due
            \/ timers[k].due = timers[j].due /\ k <= j

\* the timer queue once timer k has fired: k is gone and the time it still
\* had to wait has passed for the others
AfterFiring(k) ==
    [j \in 1..(Len(timers) - 1) |->
        LET tj == timers[IF j < k THEN j ELSE j + 1]
        IN [tj EXCEPT !.due = @ - timers[k].due]]

(* ----------------------------- _makeRequest --------------------------- *)
XhrCall(op, name, value) == [op |-> op, name |-> name, value |-> value]

\* { ...this.headers, ...(params.headers || { }) }: the client's entries with
\* the call's values where it has the name, then the call's other entries
MergedHeaders(params) ==
    LET own == client.headers
        given == Coalesce(params.headers, <<>>)
        Given(name) == {k \in 1..Len(given) : given[k][1] = name}
        IsNew(e) == \A k \in 1..Len(own) : own[k][1] # e[1]
        kept == [k \in 1..Len(own) |->
                    IF Given(own[k][1]) = {} THEN own[k]
                    ELSE given[CHOOSE j \in Given(own[k][1]) : TRUE]]
    IN kept \o SelectSeq(given, IsNew)

\* the calls one _makeRequest makes on its XMLHttpRequest, in order
XhrCalls(method, params) ==
    LET merged == MergedHeaders(params)
    IN <<XhrCall("addEventListener", "readystatechange", "HttpTimer"),
         XhrCall("addEventListener", "readystatechange", "onReadyStateChange"),
         XhrCall("addEventListener", "error", "onError"),
         XhrCall("addEventListener", "abort", "onAbort"),
         XhrCall("addEventListener", "timeout", "onTimeout"),
         XhrCall("open", method, "")>>
       \o [k \in 1..Len(merged) |->
              XhrCall("setRequestHeader", merged[k][1], merged[k][2])]
       \o (IF SendsBody(method, params)
           THEN <<XhrCall("send", "", Value(params.body))>> ELSE <<>>)

\* the attempt record built by one call of _makeRequest
NewAttempt(method, params, attempt, parent, waited) ==
    [ requestId  |-> nextRequestId,
      attempt    |-> attempt,
      method     |-> method,
      params     |-> params,
      parent     |-> parent,
      outcome    |-> OutcomeNone,
      statusCode |-> -1,
      readyState |-> Opened,
      calls      |-> XhrCalls(method, params),
      sent       |-> SendsBody(method, params),
      fired      |-> {},
      raced      |-> FALSE,
      waited     |-> waited,
      promise    |-> Pending ]

\* _makeRequest(method, path, params, attempt = 1)
MakeRequest(method, params, attempt, parent, waited) ==
    /\ nextRequestId' = NextId(nextRequestId)
    /\ attempts' = Append(attempts,
                          NewAttempt(method, params, attempt, parent, waited))

(* ------------------------------ Init ---------------------------------- *)
\* new HttpClient(params): headers || { }, retries || 0,
\* isRetryable || retryNetworkErrors
NewClient(params) ==
    [retries |-> OrDefault(params.retries, 0),
     isRetryable |-> Coalesce(params.isRetryable, "retryNetworkErrors"),
     headers |-> Coalesce(params.headers, <<>>)]

\* nothing requested yet
Idle ==
    /\ attempts = <<>>
    /\ timers = <<>>
    /\ settleCalls = 0

Init ==
    /\ \E params \in ClientParams : client = NewClient(params)
    /\ nextRequestId = FirstRequestId
    /\ server = DefaultServer
    /\ Idle

\* a process that has made all the requests but two below the ceiling
CounterInit ==
    /\ \E params \in ClientParams : client = NewClient(params)
    /\ nextRequestId = MAX_SAFE_INTEGER - 1
    /\ server = DefaultServer
    /\ Idle

\* a client built without a retry budget, against any server
ResponseInit ==
    /\ \E params \in {p \in ClientParams : p.retries = Null} :
          client = NewClient(params)
    /\ nextRequestId = FirstRequestId
    /\ server \in Servers
    /\ Idle

(* --------------------- request / get / post / ... --------------------- *)
\* request(method, path, params) with the options drawn from the given sets
RequestWith(methods, bodies, budgets, policies, headers, types) ==
    /\ attempts = <<>>
    /\ \E method \in methods, body \in bodies, r \in budgets, p \in policies,
          h \in headers, t \in types :
          MakeRequest(method,
                      [body |-> body, retries |-> r, isRetryable |-> p,
                       headers |-> h, responseType |-> t],
                      FirstAttempt, 0, 0)
    /\ UNCHANGED <<server, client, timers, settleCalls>>

\* a call that leaves responseType unset
Request ==
    RequestWith(Methods, Bodies, OptionalRetries, CallPolicies, CallHeaders, {Null})

\* a call with a body that may set responseType, with one retry for a
\* failure status
RequestTyped ==
    RequestWith({"POST"}, {Some("payload")}, {Some(1)}, {Some("retryStatus")},
                {Null}, ResponseTypes)

(* --------------------------- retryIfPossible -------------------------- *)
\* retryIfPossible(xhr, cause, res) of attempt i, run on the attempts atts
\* and the timer queue tm
RetryIfPossible(atts, tm, i, cause) ==
    LET a == atts[i]
        retries == EffectiveRetries(a.params)
    IN IF Truthy(retries) /\ IsRetryableCallback(EffectivePolicy(a.params), cause)
       THEN \* newParams.retries = retries - 1; setTimeout(doRetry, backoff)
            /\ timers' = SetTimeout(tm, "doRetry", i, Backoff(a.attempt),
                                    retries - 1, cause)
            /\ attempts' = atts
            /\ settleCalls' = settleCalls
       ELSE \* reject({ xhr, cause })
            /\ timers' = tm
            /\ attempts' = Settle(atts, i, Rejected(i, cause))
            /\ settleCalls' = settleCalls + 1

(* ------------------------- transport events --------------------------- *)
Ids == 1..Len(attempts)

IsRetryTimer(k) == timers[k].kind = "doRetry"
IsDoneTimer(k) == timers[k].kind = "onDone"

\* if (retries) of attempt i
HasBudget(i) == Truthy(EffectiveRetries(attempts[i].params))

\* attempts started plus attempts that pending timers can still start
Potential ==
    Len(attempts)
    + Cardinality({k \in 1..Len(timers) : IsRetryTimer(k)})
    + Cardinality({k \in 1..Len(timers) : IsDoneTimer(k) /\ HasBudget(timers[k].owner)})

\* the transport delivers a terminal signal to attempt i only while the
\* chain stays within MaxAttempts attempts
MaySpawn(i) == ~HasBudget(i) \/ Potential < MaxAttempts

\* xhr 'readystatechange' listener. The cases Unsent, Opened, HeadersReceived
\* and Loading only break, so the one change of phase that is a step of the
\* program is the one to Done: setTimeout(onDone, 10). As XMLHttpRequest
\* does, the transport announces Done before any failure signal of the attempt
OnReadyStateChange(i) ==
    /\ attempts[i].sent
    /\ attempts[i].readyState < Done
    /\ attempts[i].fired = {}
    /\ MaySpawn(i)
    /\ attempts' = [attempts EXCEPT ![i].readyState = Done]
    /\ timers' = SetTimeout(timers, "onDone", i, DebounceDelay, 0, NoCause)
    /\ UNCHANGED <<server, client, nextRequestId, settleCalls>>

RECURSIVE SumFired(_)
SumFired(n) == IF n = 0 THEN 0 ELSE Cardinality(attempts[n].fired) + SumFired(n - 1)
\* failure signals delivered so far
Signals == SumFired(Len(attempts))

\* the debounce of attempt i is running: Done was seen, onDone has not run
Debouncing(i) ==
    attempts[i].readyState = Done /\ attempts[i].outcome = OutcomeNone

\* the transport may deliver failure signal cause to attempt i: each kind
\* once, and none after the debounce window that follows Done has closed
MayFail(i, cause) ==
    /\ attempts[i].sent
    /\ attempts[i].outcome = OutcomeNone
    /\ cause \notin attempts[i].fired
    /\ Signals < MaxSignals
    /\ MaySpawn(i)

\* a failure listener: retryIfPossible(xhr, cause), no look at outcome
OnFailure(i, cause) ==
    /\ MayFail(i, cause)
    /\ RetryIfPossible([attempts EXCEPT ![i].fired = @ \cup {cause},
                                        ![i].raced = @ \/ Debouncing(i)],
                       timers, i, cause)
    /\ UNCHANGED <<server, client, nextRequestId>>

OnError(i) == OnFailure(i, "Error")
OnAbort(i) == OnFailure(i, "Abort")
OnTimeout(i) == OnFailure(i, "Timeout")

(* ------------------------------ timers -------------------------------- *)
\* onDone of attempt i, 10 ms after Done; status is xhr.status
OnDone ==
    /\ timers # <<>>
    /\ IsDoneTimer(NextTimer)
    /\ LET k == NextTimer
           i == timers[k].owner
           rest == AfterFiring(k)
       IN IF attempts[i].outcome # OutcomeNone
          THEN /\ timers' = rest
               /\ UNCHANGED <<attempts, settleCalls>>
          ELSE \E status \in Statuses :
                 LET latched == [attempts EXCEPT ![i].outcome = OutcomeDone,
                                                 ![i].statusCode = status]
                 IN IF IsStatusFailure(status)
                    THEN RetryIfPossible(latched, rest, i, "Status")
                    ELSE /\ attempts' = Settle(latched, i, Resolved(i, status))
                         /\ settleCalls' = settleCalls + 1
                         /\ timers' = rest
    /\ UNCHANGED <<server, client, nextRequestId>>

\* the attempt argument doRetry passes to _makeRequest: none, so the default
RetryAttemptNumber(failed) == FirstAttempt

\* doRetry: this._makeRequest(method, path, newParams).then(resolve, reject)
DoRetry ==
    /\ timers # <<>>
    /\ IsRetryTimer(NextTimer)
    /\ LET k == NextTimer
           i == timers[k].owner
       IN /\ timers' = AfterFiring(k)
          /\ MakeRequest(attempts[i].method,
                         [attempts[i].params EXCEPT !.retries = Some(timers[k].retries)],
                         RetryAttemptNumber(attempts[i].attempt), i, timers[k].delay)
    /\ UNCHANGED <<server, client, settleCalls>>

Next ==
    \/ Request
    \/ \E i \in Ids : OnReadyStateChange(i)
    \/ \E i \in Ids : OnError(i)
    \/ \E i \in Ids : OnAbort(i)
    \/ \E i \in Ids : OnTimeout(i)
    \/ OnDone
    \/ DoRetry

Spec == Init /\ [][Next]_vars

\* the same program with the id counter next to its ceiling
CounterSpec == CounterInit /\ [][Next]_vars

ResponseNext ==
    \/ RequestTyped
    \/ \E i \in Ids : OnReadyStateChange(i)
    \/ \E i \in Ids : OnError(i)
    \/ \E i \in Ids : OnAbort(i)
    \/ \E i \in Ids : OnTimeout(i)
    \/ OnDone
    \/ DoRetry

\* the same program against every server, for the Response it builds
ResponseSpec == ResponseInit /\ [][ResponseNext]_vars

(* ====================================================================== *)
(* Vocabulary of the claims                                               *)
(* ====================================================================== *)
Issued == attempts # <<>>

\* the promise handed to the caller of request / get / post / ...
Root == attempts[1].promise

\* the retry budget and the retry predicate the logical request runs with
Budget == EffectiveRetries(attempts[1].params)
Policy == EffectivePolicy(attempts[1].params)

RetryTimers == {k \in 1..Len(timers) : IsRetryTimer(k)}

\* attempt i has been finalized from Done with a failure status
StatusFailed(i) ==
    attempts[i].outcome = OutcomeDone /\ attempts[i].statusCode >= StatusFailureFloor

\* the failure causes attempt i has handed to retryIfPossible
Failures(i) ==
    attempts[i].fired \cup (IF StatusFailed(i) THEN {"Status"} ELSE {})

\* position of attempt i in its chain: 1 for the first attempt
RECURSIVE Position(_)
Position(i) == IF attempts[i].parent = 0 THEN 1 ELSE 1 + Position(attempts[i].parent)

\* this step ran the handler of failure signal cause for attempt i
HandledSignal(i, cause) ==
    cause \notin attempts[i].fired /\ cause \in attempts'[i].fired

\* this step ran onDone for attempt i and classified it as a Status failure
HandledStatus(i) ==
    /\ attempts[i].outcome = OutcomeNone
    /\ attempts'[i].outcome = OutcomeDone
    /\ attempts'[i].statusCode >= StatusFailureFloor

\* this step ran retryIfPossible(xhr, cause) for attempt i
HandledFailure(i, cause) ==
    IF cause = "Status" THEN HandledStatus(i) ELSE HandledSignal(i, cause)

\* this step registered no backoff timer and started no attempt
NothingScheduled ==
    /\ Len(attempts') = Len(attempts)
    /\ Cardinality({k \in 1..Len(timers') : timers'[k].kind = "doRetry"})
         = Cardinality(RetryTimers)

(* ====================================================================== *)
(* C1: per logical request the settle operations resolve / reject are     *)
(* invoked at most once in total, also when Done and an error event fire  *)
(* for the same attempt.                                                  *)
(* ====================================================================== *)
C1_SettledAtMostOnce == settleCalls <= 1

(* ====================================================================== *)
(* C2: an attempt that received error / abort / timeout between Done and  *)
(* the end of the 10 ms debounce is never finalized as a success: the     *)
(* request is not resolved with a Response built from that attempt.       *)
(* ====================================================================== *)
C2_RacedAttemptNeverResolves ==
    Issued =>
        \A i \in Ids :
            attempts[i].raced => ~(Root.state = "resolved" /\ Root.xhr = i)

(* ====================================================================== *)
(* C3: with budget R and a failure on every attempt that isRetryable      *)
(* accepts, exactly R + 1 attempts are started and the request is then    *)
(* rejected.                                                              *)
(* ====================================================================== *)
\* every attempt started so far has failed, with causes the predicate accepts,
\* and nothing is left to run
AllFailedRetryably ==
    /\ Issued
    /\ Budget >= 0
    /\ timers = <<>>
    /\ \A i \in Ids :
          /\ Failures(i) # {}
          /\ \A c \in Failures(i) : IsRetryableCallback(Policy, c)

C3_ExactlyBudgetPlusOneAttempts ==
    AllFailedRetryably =>
        Len(attempts) = Budget + 1 /\ Root.state = "rejected"

(* ====================================================================== *)
(* C4: whatever the transport delivers, at most R + 1 attempts are ever   *)
(* started for a logical request with retry budget R.                     *)
(* ====================================================================== *)
C4_AttemptsWithinBudget ==
    (Issued /\ Budget >= 0) => Len(attempts) <= Budget + 1

(* ====================================================================== *)
(* C5: retries = 1, default policy, attempt 1 ends in a transport error   *)
(* and attempt 2 completes with a status below 400: one retry, started    *)
(* 500 ms after the failure, and the request resolves with the Response   *)
(* of attempt 2.                                                          *)
(* ====================================================================== *)
C5_Scenario ==
    /\ Issued
    /\ Budget = 1
    /\ Policy = "retryNetworkErrors"
    /\ attempts[1].fired = {"Error"}
    /\ Len(attempts) >= 2
    /\ attempts[2].outcome = OutcomeDone
    /\ attempts[2].statusCode < StatusFailureFloor
    /\ attempts[2].fired = {}

C5_RetryResolvesWithSecondAttempt ==
    C5_Scenario =>
        /\ Len(attempts) = 2
        /\ RetryTimers = {}
        /\ attempts[2].waited = 500
        /\ Root = Resolved(2, attempts[2].statusCode)

(* ====================================================================== *)
(* C6: under the default policy only Error and Timeout failures are       *)
(* retried; the handler of an Abort or Status failure starts no retry,    *)
(* whatever the budget, and rejects the request with that cause.          *)
(* ====================================================================== *)
C6_Step ==
    (Issued /\ Policy = "retryNetworkErrors") =>
        /\ \A k \in 1..Len(timers') :
              timers'[k].kind = "doRetry" => timers'[k].cause \in {"Error", "Timeout"}
        /\ \A i \in Ids : \A c \in {"Abort", "Status"} :
              HandledFailure(i, c) =>
                  /\ NothingScheduled
                  /\ attempts[i].promise.state = "pending"
                        => attempts'[i].promise = Rejected(i, c)
                  /\ Root.state = "pending" => Root' = Rejected(i, c)

C6_DefaultPolicyRetriesNetworkOnly == [][C6_Step]_vars

\* an abort under the default policy with budget left: rejected, not retried
C6_Witness ==
    /\ Issued
    /\ Policy = "retryNetworkErrors"
    /\ Budget > 0
    /\ attempts[1].fired = {"Abort"}
    /\ Root = Rejected(1, "Abort")
    /\ Len(attempts) = 1
    /\ timers = <<>>

(* ====================================================================== *)
(* C7: with an effective budget of 0 the handler of the first failure,    *)
(* whatever its cause, rejects the request as attempt number 1; no        *)
(* backoff timer is set and no second attempt is started.                 *)
(* ====================================================================== *)
C7_Step ==
    (Issued /\ Budget = 0) =>
        /\ Len(attempts') = 1
        /\ attempts'[1].attempt = 1
        /\ \A k \in 1..Len(timers') : timers'[k].kind # "doRetry"
        /\ \A c \in XhrFailures :
              HandledFailure(1, c) =>
                  /\ settleCalls' = settleCalls + 1
                  /\ Root.state = "pending" => Root' = Rejected(1, c)
                  /\ Failures(1) = {} => Root' = Rejected(1, c)

C7_ZeroBudgetRejectsAtOnce == [][C7_Step]_vars

\* a zero budget, a timeout the default policy would retry: rejected
C7_Witness ==
    /\ Issued
    /\ Budget = 0
    /\ attempts[1].fired = {"Timeout"}
    /\ Root = Rejected(1, "Timeout")
    /\ Len(attempts) = 1
    /\ timers = <<>>

(* ====================================================================== *)
(* C8: the delay between the failure of the n-th attempt of a chain and   *)
(* the start of the next is 250 * 2^n ms (500, 1000, 2000, ...).          *)
(* ====================================================================== *)
C8_BackoffDoubles ==
    \A i \in Ids :
        attempts[i].parent # 0 =>
            attempts[i].waited = BackoffBase * Pow2(Position(attempts[i].parent))

(* ====================================================================== *)
(* C9: the first attempt has attempt number 1; a retry is started with    *)
(* the failed attempt's number plus 1 and its retry budget minus 1.       *)
(* ====================================================================== *)
C9_AttemptNumbersIncrease ==
    \A i \in Ids :
        IF attempts[i].parent = 0
        THEN attempts[i].attempt = 1
        ELSE /\ attempts[i].attempt = attempts[attempts[i].parent].attempt + 1
             /\ EffectiveRetries(attempts[i].params)
                  = EffectiveRetries(attempts[attempts[i].parent].params) - 1

(* ====================================================================== *)
(* C10: attempts of a chain are strictly sequential: at most one attempt  *)
(* is in flight or waiting behind a backoff timer at any time.            *)
(* ====================================================================== *)
\* attempts that have reached no terminal signal yet
InFlight == {i \in Ids : Failures(i) = {} /\ attempts[i].outcome = OutcomeNone}

C10_AttemptsSequential ==
    Cardinality(InFlight) + Cardinality(RetryTimers) <= 1

(* ====================================================================== *)
(* C11: a rejected request carries the cause of a failure of the attempt  *)
(* that rejected it and, for a status failure, the partial Response of    *)
(* that attempt (a statusCode of -1 stands for: no Response in the value).*)
(* ====================================================================== *)
C11_RejectionCarriesPartialResponse ==
    (Issued /\ Root.state = "rejected") =>
        /\ Root.cause \in Failures(Root.xhr)
        /\ Root.cause = "Status" =>
              Root.statusCode = attempts[Root.xhr].statusCode

(* ====================================================================== *)
(* C12: whatever the method and the options, a request does not stay      *)
(* pending for ever: while its promise is pending, a timer is pending or  *)
(* an attempt has been handed to the transport and awaits its terminal    *)
(* event.                                                                 *)
(* ====================================================================== *)
\* attempts the transport still owes a terminal event
Awaited == {i \in Ids : attempts[i].sent /\ i \in InFlight}

C12_NeverLeftPending ==
    (Issued /\ Root.state = "pending") => (timers # <<>> \/ Awaited # {})

(* ====================================================================== *)
(* C15: the Outcome latch of an attempt is write-once: the first terminal *)
(* handler sets it, and no second terminal handler of the attempt acts.   *)
(* ====================================================================== *)
\* terminal handlers that have resolved, rejected or scheduled a retry for i
Acted(i) ==
    Cardinality(attempts[i].fired)
    + (IF attempts[i].outcome = OutcomeDone THEN 1 ELSE 0)

C15_LatchWriteOnce ==
    \A i \in Ids :
        /\ attempts[i].fired # {} => attempts[i].outcome # OutcomeNone
        /\ Acted(i) <= 1

(* ====================================================================== *)
(* C17: for every integer budget, negative ones included, a retry is      *)
(* scheduled only while the remaining budget is greater than 0, so the    *)
(* budget handed to a retry is never negative.                            *)
(* ====================================================================== *)
C17_RetryOnlyWithPositiveBudget ==
    /\ \A k \in RetryTimers : timers[k].retries >= 0
    /\ \A i \in Ids :
          attempts[i].parent # 0 => EffectiveRetries(attempts[i].params) >= 0

(* ====================================================================== *)
(* C20: once the promise of the request is settled, no backoff timer of   *)
(* the chain is pending and no further attempt is started.                *)
(* ====================================================================== *)
C20_SettledChainIsQuiet ==
    (Issued /\ Root.state # "pending") => RetryTimers = {}

(* ====================================================================== *)
(* C16: onDone classifies by status alone: a status >= 400 goes to        *)
(* retryIfPossible as a Status failure, any other status resolves the     *)
(* attempt with its Response; no Response with status >= 400 is resolved. *)
(* ====================================================================== *)
\* this step ran onDone past its guard for attempt i
Finalized(i) ==
    attempts[i].outcome = OutcomeNone /\ attempts'[i].outcome = OutcomeDone

\* this step registered a backoff timer for attempt i and failure cause
ScheduledRetry(i, cause) ==
    /\ Len(timers') > 0
    /\ timers'[Len(timers')].kind = "doRetry"
    /\ timers'[Len(timers')].owner = i
    /\ timers'[Len(timers')].cause = cause
    /\ timers'[Len(timers')].due = timers'[Len(timers')].delay
    /\ Cardinality({k \in 1..Len(timers') : timers'[k].kind = "doRetry"})
         = Cardinality(RetryTimers) + 1

C16_Step ==
    /\ \A i \in 1..Len(attempts') :
          attempts'[i].promise.state = "resolved"
              => attempts'[i].promise.statusCode < StatusFailureFloor
    /\ \A i \in Ids :
          Finalized(i) =>
              IF attempts'[i].statusCode >= StatusFailureFloor
              THEN IF HasBudget(i)
                      /\ IsRetryableCallback(EffectivePolicy(attempts[i].params), "Status")
                   THEN /\ ScheduledRetry(i, "Status")
                        /\ settleCalls' = settleCalls
                        /\ attempts'[i].promise = attempts[i].promise
                   ELSE /\ NothingScheduled
                        /\ settleCalls' = settleCalls + 1
                        /\ attempts[i].promise.state = "pending"
                              => attempts'[i].promise = Rejected(i, "Status")
              ELSE /\ NothingScheduled
                   /\ settleCalls' = settleCalls + 1
                   /\ attempts[i].promise.state = "pending"
                         => attempts'[i].promise = Resolved(i, attempts'[i].statusCode)

C16_ClassifiedByStatusAlone == [][C16_Step]_vars

\* a failure status offered to a policy that retries it, and one resolved
C16_Witness ==
    /\ Issued
    /\ StatusFailed(1)
    /\ Len(attempts) = 2
    /\ attempts[2].parent = 1
    /\ attempts[2].outcome = OutcomeDone
    /\ Root = Resolved(2, 200)

(* ====================================================================== *)
(* C13: the Response built from a header blob of 'Name: value' lines has  *)
(* rawHeaders equal to the lines' (name, value) pairs in order, casing    *)
(* and multiplicity, and headers equal to the map from each lower-cased   *)
(* name to the value of its last line; no entry comes from anything but   *)
(* a line, the empty blob included. Checked under ResponseSpec.           *)
(* ====================================================================== *)
\* the last of the lines whose lower-cased name is name
LastOccurrence(lines, name) ==
    CHOOSE k \in 1..Len(lines) :
        /\ ToLowerCase(lines[k][1]) = name
        /\ \A j \in (k + 1)..Len(lines) : ToLowerCase(lines[j][1]) # name

\* lower-cased name -> value of its last occurrence
ExpectedHeaders(lines) ==
    [n \in {ToLowerCase(lines[k][1]) : k \in 1..Len(lines)} |->
        lines[LastOccurrence(lines, n)][2]]

C13_HeadersFromBlob ==
    \A i \in Ids :
        attempts[i].promise.state = "resolved" =>
            LET res == Value(attempts[i].promise.res)
            IN /\ res.rawHeaders = server.headers
               /\ res.headers = ExpectedHeaders(server.headers)

(* ====================================================================== *)
(* C14: when onDone finalizes an attempt with a status below 400, the     *)
(* content-type application/json and a body that is no JSON, it resolves  *)
(* with a Response without the json field; that step rejects nothing and  *)
(* schedules no retry. Checked under ResponseSpec.                        *)
(* ====================================================================== *)
\* the server says application/json and sends a body that is no JSON
JsonUnparsable ==
    /\ server.headers # <<>>
    /\ Property(ExpectedHeaders(server.headers), <<"content-type">>)
         = Some(<<"application/json">>)
    /\ server.body \notin ParsableTexts

C14_Step ==
    JsonUnparsable =>
        /\ \A j \in 1..Len(attempts') :
              attempts'[j].promise.state = "resolved"
                  => Value(attempts'[j].promise.res).json = Null
        /\ \A i \in Ids :
              (Finalized(i) /\ attempts'[i].statusCode < StatusFailureFloor) =>
                  /\ NothingScheduled
                  /\ settleCalls' = settleCalls + 1
                  /\ \A j \in Ids :
                        attempts'[j].promise.state = "rejected"
                            => attempts[j].promise.state = "rejected"
                  /\ attempts[i].promise.state = "pending"
                        => /\ attempts'[i].promise.state = "resolved"
                           /\ attempts'[i].promise.xhr = i

C14_UnparsableJsonStillResolves == [][C14_Step]_vars

\* a text response that claims to be JSON and is none, resolved while a
\* retry was still in the budget
C14_Witness ==
    /\ Issued
    /\ JsonUnparsable
    /\ XhrResponseType(attempts[1].params) = "text"
    /\ Budget > 0
    /\ Root.state = "resolved"
    /\ Root.xhr = 1
    /\ Value(Root.res).json = Null

(* ====================================================================== *)
(* C18 (as the spec has it): the counter wraps to 1 before an attempt is  *)
(* issued the ceiling, so every id is in 1..ceiling-1, and consecutive    *)
(* ids differ. Checked under CounterSpec.                                 *)
(* ====================================================================== *)
C18_IdsBelowCeiling ==
    \A i \in Ids :
        /\ attempts[i].requestId \in FirstRequestId..(MAX_SAFE_INTEGER - 1)
        /\ i > 1 => attempts[i].requestId # attempts[i - 1].requestId

(* ---------------------------------------------------------------------- *)
(* C18 (amended): every attempt, first or retry, takes the value of the   *)
(* counter and advances it by one; the attempt issued the ceiling itself  *)
(* resets the counter to 1, so every id is in 1..ceiling and consecutive  *)
(* ids differ. Checked under CounterSpec.                                 *)
(* ---------------------------------------------------------------------- *)
\* the id issued after attempt i's: the next attempt's, or the counter
Following(i) ==
    IF i < Len(attempts) THEN attempts[i + 1].requestId ELSE nextRequestId

C18_IdsUpToCeiling ==
    /\ nextRequestId \in FirstRequestId..MAX_SAFE_INTEGER
    /\ \A i \in Ids :
          /\ attempts[i].requestId \in FirstRequestId..MAX_SAFE_INTEGER
          /\ Following(i) # attempts[i].requestId
          /\ Following(i) = IF attempts[i].requestId = MAX_SAFE_INTEGER
                            THEN FirstRequestId
                            ELSE attempts[i].requestId + 1

\* a retry issued the ceiling, the retry after it the id 1
C18_Witness ==
    /\ Len(attempts) >= 3
    /\ attempts[2].parent = 1
    /\ attempts[2].requestId = MAX_SAFE_INTEGER
    /\ attempts[3].requestId = FirstRequestId

(* ====================================================================== *)
(* C19: xhr.send is called only for a method other than GET and HEAD, and *)
(* when it is called the readystatechange, error, abort and timeout       *)
(* listeners have been added, xhr.open has been called and every merged   *)
(* request header has been set.                                           *)
(* ====================================================================== *)
\* the value the merge gives header name: the call's, else the client's
MergedValue(i, name) ==
    LET given == Coalesce(attempts[i].params.headers, <<>>)
        In(obj) == {k \in 1..Len(obj) : obj[k][1] = name}
    IN IF In(given) # {} THEN given[CHOOSE k \in In(given) : TRUE][2]
       ELSE client.headers[CHOOSE k \in In(client.headers) : TRUE][2]

MergedNames(i) ==
    LET given == Coalesce(attempts[i].params.headers, <<>>)
    IN {client.headers[k][1] : k \in 1..Len(client.headers)}
       \cup {given[k][1] : k \in 1..Len(given)}

C19_SendAfterSetup ==
    \A i \in Ids :
        LET c == attempts[i].calls
            Before(k, call) == \E j \in 1..(k - 1) : c[j] = call
        IN /\ attempts[i].sent <=> \E k \in 1..Len(c) : c[k].op = "send"
           /\ \A k \in 1..Len(c) :
                 c[k].op = "send" =>
                     /\ attempts[i].method \notin {"GET", "HEAD"}
                     /\ Before(k, XhrCall("addEventListener", "readystatechange",
                                          "onReadyStateChange"))
                     /\ Before(k, XhrCall("addEventListener", "error", "onError"))
                     /\ Before(k, XhrCall("addEventListener", "abort", "onAbort"))
                     /\ Before(k, XhrCall("addEventListener", "timeout", "onTimeout"))
                     /\ Before(k, XhrCall("open", attempts[i].method, ""))
                     /\ \A n \in MergedNames(i) :
                           Before(k, XhrCall("setRequestHeader", n, MergedValue(i, n)))

\* a POST with a body and two merged headers was sent and has answered
C19_Witness ==
    /\ Issued
    /\ attempts[1].method = "POST"
    /\ client.headers # <<>>
    /\ attempts[1].params.headers # Null
    /\ Cardinality(MergedNames(1)) = 2
    /\ attempts[1].calls[Len(attempts[1].calls)].op = "send"
    /\ attempts[1].readyState = Done

=============================================================================
